---- MODULE Spec2Model ----
(***************************************************************************)
(* Model of the ALVR server's dashboard gateway:                           *)
(*   alvr/server/src/logging_backend.rs  (init_logging: the log sink that  *)
(*       turns every log record into an Event, writes it to the log file   *)
(*       and broadcasts it on EVENTS_BUS)                                  *)
(*   alvr/server/src/web_server.rs       (webserver: the request handler,  *)
(*       the /api/events and /api/video-mirror streaming threads and the   *)
(*       UpdateClientList dashboard request)                               *)
(*                                                                         *)
(* The broadcast channel is the `bus` crate: Bus::new(len) holds at most   *)
(* len items that some reader has not read yet, add_rx starts a reader at  *)
(* the current tail, try_broadcast returns Err(val) without writing when   *)
(* the bus is full, and a reader's blocking recv returns Err only when the *)
(* Bus has been dropped and the reader has drained it.                     *)
(***************************************************************************)
EXTENDS Integers, Sequences, FiniteSets, TLC

\* ------------------------------------------------------------------ bounds

\* web_server.rs:22 sets 256; the model runs the same code with a small bus.
WS_BROADCAST_CAPACITY == 2

\* Number of log calls made by the rest of the process (the handlers' own
\* log calls come on top of these).
MaxLog == 2

\* Number of video buffers the encoder hands to the mirror.
MaxFrames == 3

\* Number of dashboard requests served.
MaxRequests == 2

\* Connections the model follows on each streaming route.
EventSubs == {"e1", "e2"}
VideoSubs == {"v1", "v2"}

None == "None"

\* ------------------------------------------------------------------- state

VARIABLES
    SHUTTING_DOWN,              \* crate::SHUTTING_DOWN
    EVENTS_BUS,                 \* Mutex<Option<Bus<Event>>>
    VIDEO_MIRROR_BUS,           \* Mutex<Option<Bus<Vec<u8>>>>: the subscription whose Bus it holds
    video_bus,                  \* the Bus each /api/video-mirror subscription created
    DECODER_CONFIG,             \* Mutex<Option<DecoderInitializationConfig>>
    ev,                         \* /api/events connections: position, data in hand
    vid,                        \* /api/video-mirror connections
    ev_sent,                    \* text messages each events websocket has sent
    vid_sent,                   \* binary messages each mirror websocket has sent
    level_filter,               \* LevelFilter of the build (logging_backend.rs:32-36)
    session_log,                \* lines written to the chained log output
    crash_log,                  \* lines written to the crash log
    clock,                      \* Local::now()
    panicked,                   \* a log call has panicked
    log_records,                \* the records that reached the format closure, in order
    sink_ok,                    \* writes to the session log file succeed
    session_file,               \* lines the session log file holds
    session,                    \* SERVER_DATA_MANAGER session description
    calls,                      \* calls made to the collaborators (driver, OS, audio)
    recording,                  \* VIDEO_RECORDING_FILE is Some
    response,                   \* the last response of the request handler
    held,                       \* the threads holding each lock
    lt,                         \* position of each thread that takes locks
    client_list,                \* SERVER_DATA_MANAGER client list
    DISCONNECT_CLIENT_NOTIFIER, \* Mutex<Option<Sender<ClientDisconnectRequest>>>
    notified,                   \* ClientDisconnectRequest::Disconnect messages sent
    idr_requests,               \* calls of crate::RequestIDR()
    requests,                   \* dashboard requests served so far
    last_request,               \* the last of them: request, status, state before and after
    log_calls,                  \* log calls of the rest of the process so far
    frames,                     \* video buffers produced so far
    ev_attempts,                \* every try_broadcast on EVENTS_BUS, in lock order
    ev_sub_at,                  \* Len(ev_attempts) when the connection called add_rx
    ev_backlog_at,              \* items buffered for other readers at that moment
    vid_sub                     \* what a mirror subscription saw: config and frames so far

vars == <<SHUTTING_DOWN, EVENTS_BUS, VIDEO_MIRROR_BUS, video_bus, DECODER_CONFIG,
          ev, vid, ev_sent, vid_sent, level_filter, session_log, crash_log, clock,
          panicked, log_records, sink_ok, session_file, session, calls, recording,
          response, held, lt, client_list, DISCONNECT_CLIENT_NOTIFIER, notified, idr_requests,
          requests, last_request, log_calls, frames, ev_attempts, ev_sub_at, ev_backlog_at,
          vid_sub>>

busVars    == <<EVENTS_BUS, ev_attempts>>
sinkVars   == <<session_log, crash_log, clock, panicked, log_records, sink_ok, session_file>>
videoVars  == <<VIDEO_MIRROR_BUS, video_bus, DECODER_CONFIG, vid, vid_sent, vid_sub,
                idr_requests, frames>>
eventVars  == <<ev, ev_sent, ev_sub_at, ev_backlog_at>>
dispatchVars == <<session, calls, recording>>
lockVars   == <<held, lt>>
restVars   == <<level_filter, dispatchVars, response, lockVars>>
clientVars == <<client_list, DISCONNECT_CLIENT_NOTIFIER, notified, requests, last_request>>

\* ------------------------------------------------------------ the bus crate

\* Bus::new(len): room for len unread items, no reader.
Bus_new(len) == [some |-> TRUE, len |-> len, ring |-> <<>>, rx |-> <<>>, closed |-> FALSE]

\* The None of an Option<Bus<T>>.
NoBus == [some |-> FALSE, len |-> 0, ring |-> <<>>, rx |-> <<>>, closed |-> FALSE]

\* The tail of the bus: the number of items written so far.
tail(bus) == Len(bus.ring)

\* try_broadcast finds the fence seat still unread by some reader.
IsFull(bus) == \E r \in DOMAIN bus.rx : tail(bus) - bus.rx[r] >= bus.len

\* The readers that make the bus full.
FullReaders(bus) == {r \in DOMAIN bus.rx : tail(bus) - bus.rx[r] >= bus.len}

\* The read position a new BusReader starts from.
add_rx_head(bus) == tail(bus)

\* Bus::add_rx for reader r.
add_rx(bus, r) == [bus EXCEPT !.rx = (r :> add_rx_head(bus)) @@ bus.rx]

\* A broadcast that overwrites the oldest unread item of a full bus.
try_broadcast_overwrite(bus, val) ==
    [bus EXCEPT !.ring = Append(@, val),
                !.rx = [r \in DOMAIN bus.rx |->
                           IF tail(bus) - bus.rx[r] >= bus.len
                           THEN bus.rx[r] + 1 ELSE bus.rx[r]]]

\* Bus::try_broadcast(val).ok(): written unless the bus is full; the Err(val)
\* of a full bus is discarded by .ok(), and val with it.
try_broadcast(bus, val) ==
    IF IsFull(bus) THEN bus ELSE [bus EXCEPT !.ring = Append(@, val)]

\* BusReader::recv has an item to return.
HasItem(bus, r) == bus.rx[r] < tail(bus)

\* The item recv returns, and the bus after it.
recv_item(bus, r) == bus.ring[bus.rx[r] + 1]
recv_advance(bus, r) == [bus EXCEPT !.rx[r] = @ + 1]

\* Drop of a BusReader: it no longer counts for the fence.
drop_rx(bus, r) == [bus EXCEPT !.rx = [x \in DOMAIN bus.rx \ {r} |-> bus.rx[x]]]

\* The items reader r has not read yet.
Unread(bus, r) == SubSeq(bus.ring, bus.rx[r] + 1, tail(bus))

\* ------------------------------------------------- logging_backend.rs

Levels == <<"Error", "Warn", "Info", "Debug", "Trace">>
LevelRank(l) == CHOOSE i \in 1..Len(Levels) : Levels[i] = l

\* fern's Dispatch::level: records below the filter never reach the format
\* closure.
Enabled(level) == LevelRank(level) <= LevelRank(level_filter)

\* LogSeverity::from_log_level.
from_log_level(level) ==
    CASE level = "Error" -> "Error"
      [] level = "Warn"  -> "Warning"
      [] level = "Info"  -> "Info"
      [] OTHER           -> "Debug"

\* A rendered message is a sequence of tokens; the braces are tokens of
\* their own.
starts_with(m, c) == Len(m) > 0 /\ m[1] = c
ends_with(m, c) == Len(m) > 0 /\ m[Len(m)] = c

ParseError == [tag |-> "ParseError", severity |-> None, content |-> <<>>]

\* serde_json::from_str::<EventType>: the model has two serialized payloads,
\* a Session variant and a Log variant (EventType::Log, logging_backend.rs:17).
PlainMessage == <<"hello">>
SerializedSession == <<"{", "Session", "}">>
SerializedLog == <<"{", "Log", "}">>
from_str(m) ==
    CASE m = SerializedSession -> [tag |-> "Session", severity |-> None, content |-> <<>>]
      [] m = SerializedLog -> [tag |-> "Log", severity |-> "Error", content |-> <<"inner">>]
      [] m \in {<<"{", "AudioDevices", "}">>, <<"{", "DriversList", "}">>} ->
            [tag |-> m[2], severity |-> None, content |-> <<>>]
      [] OTHER -> ParseError

\* A sink that records every plain message as Info.
classify_as_info(level, m) ==
    IF starts_with(m, "{") /\ ends_with(m, "}")
    THEN from_str(m)
    ELSE [tag |-> "Log", severity |-> "Info", content |-> m]

\* logging_backend.rs:13-20.
IsStructured(m) == starts_with(m, "{") /\ ends_with(m, "}")
classify(level, m) ==
    IF IsStructured(m)
    THEN from_str(m)
    ELSE [tag |-> "Log", severity |-> from_log_level(level), content |-> m]

\* logging_backend.rs:21-24.
make_event(level, m) == [timestamp |-> clock + 1, event_type |-> classify(level, m)]

\* serde_json::to_string(&event) and its inverse.
to_string(e) == <<"{", "timestamp", e.timestamp, "event_type", e.event_type, "}">>
parse_event(line) == [timestamp |-> line[3], event_type |-> line[5]]

\* A sink that makes room on a full bus by overwriting the oldest unread item.
broadcast_event_overwrite(bus, e) ==
    IF bus.some THEN try_broadcast_overwrite(bus, e) ELSE bus

\* A sink that publishes on a channel without a bound.
broadcast_event_unbounded(bus, e) ==
    IF bus.some THEN [bus EXCEPT !.ring = Append(@, e)] ELSE bus

\* logging_backend.rs:27-29: the broadcast of one event.
broadcast_event(bus, e) == IF bus.some THEN try_broadcast(bus, e) ELSE bus

\* An unwrap that lets every parse result through.
unwrap_panics_never(m) == FALSE

\* logging_backend.rs:14: serde_json::from_str(&maybe_event).unwrap().
unwrap_panics(m) == IsStructured(m) /\ from_str(m) = ParseError

\* A file output that writes a line only while the event bus has room.
write_line_unless_full(file, line) ==
    IF sink_ok /\ ~IsFull(EVENTS_BUS) THEN Append(file, line) ELSE file

\* fern's file output: a failed write is reported on stderr and the line is
\* lost; the logger carries on.
write_line(file, line) == IF sink_ok THEN Append(file, line) ELSE file

\* One log call, through the format closure and the chained outputs
\* (logging_backend.rs:11-30 and 57-63).
log(level, m) ==
    IF ~Enabled(level)
    THEN UNCHANGED <<sinkVars, busVars>>
    ELSE IF unwrap_panics(m)
    THEN /\ panicked' = TRUE
         /\ log_records' = Append(log_records, [level |-> level, message |-> m])
         /\ UNCHANGED <<session_log, crash_log, clock, sink_ok, session_file, busVars>>
    ELSE LET e == make_event(level, m) IN
         /\ clock' = clock + 1
         /\ log_records' = Append(log_records, [level |-> level, message |-> m])
         /\ session_log' = Append(session_log, to_string(e))
         /\ session_file' = write_line(session_file, to_string(e))
         /\ UNCHANGED sink_ok
         /\ crash_log' = IF level = "Error"
                         THEN Append(crash_log, to_string(e)) ELSE crash_log
         /\ EVENTS_BUS' = broadcast_event(EVENTS_BUS, e)
         /\ ev_attempts' =
               IF ~EVENTS_BUS.some THEN ev_attempts
               ELSE Append(ev_attempts,
                           [event |-> e,
                            accepted |-> broadcast_event(EVENTS_BUS, e) # EVENTS_BUS,
                            readers |-> DOMAIN EVENTS_BUS.rx,
                            full |-> FullReaders(EVENTS_BUS)])
         /\ UNCHANGED panicked

\* The messages of the handlers' own log calls.
MsgSubscribing == <<"subscribing to events!">>
MsgSendFailed == <<"Failed to send log with websocket">>
MsgEventsFinished == <<"finished events websocket!">>
MsgVideoSendFailed == <<"Failed to send video packet with websocket">>
MsgVideoFinished == <<"websocket finished!">>

\* ------------------------------------------------ web_server.rs: /api/events

\* A handler that serves requests without looking at the shutdown flag.
is_shutting_down_ignored == FALSE

\* web_server.rs:34: SHUTTING_DOWN.value() at the top of the handler.
is_shutting_down == SHUTTING_DOWN

\* A response of the request handler: the seq-th request, its route, the
\* ServerRequest it carried and the status code.
Respond(seq, route, request, status) ==
    [seq |-> seq, route |-> route, request |-> request, status |-> status]

\* web_server.rs:34-37 and 136-165: the request handler of /api/events.
HandleEventsRequest(i) ==
    /\ ev[i].pc = "idle"
    /\ IF is_shutting_down
       THEN /\ ev' = [ev EXCEPT ![i].pc = "done", ![i].status = 503]
            /\ UNCHANGED <<sinkVars, busVars>>
       ELSE /\ log("Error", MsgSubscribing)
            /\ \E is_websocket \in BOOLEAN :
                  ev' = IF is_websocket
                        THEN [ev EXCEPT ![i].pc = "spawned", ![i].status = 101]
                        ELSE [ev EXCEPT ![i].pc = "done", ![i].status = 400]
    /\ UNCHANGED <<SHUTTING_DOWN, videoVars, ev_sent, ev_sub_at, ev_backlog_at,
                   restVars, clientVars, log_calls>>

\* Items still buffered in the bus for some reader.
Buffered(bus) ==
    IF DOMAIN bus.rx = {} THEN 0
    ELSE tail(bus) - (CHOOSE h \in {bus.rx[r] : r \in DOMAIN bus.rx} :
                          \A r \in DOMAIN bus.rx : h <= bus.rx[r])

\* A subscription that starts reading at the oldest seat of the bus.
subscribe_events_from_start(bus, i) == [bus EXCEPT !.rx = (i :> 0) @@ bus.rx]

\* web_server.rs:143-147: the reader added to the bus EVENTS_BUS holds.
subscribe_events(bus, i) == add_rx(bus, i)

\* web_server.rs:142-148: the thread waits for the websocket and subscribes.
EventsSubscribe(i) ==
    /\ ev[i].pc = "spawned"
    /\ \E websocket_ok \in BOOLEAN :
          IF websocket_ok /\ EVENTS_BUS.some
          THEN /\ EVENTS_BUS' = subscribe_events(EVENTS_BUS, i)
               /\ ev' = [ev EXCEPT ![i].pc = "check"]
               /\ ev_sub_at' = [ev_sub_at EXCEPT ![i] = Len(ev_attempts)]
               /\ ev_backlog_at' = [ev_backlog_at EXCEPT ![i] = Buffered(EVENTS_BUS)]
          ELSE /\ ev' = [ev EXCEPT ![i].pc = "done"]
               /\ UNCHANGED <<EVENTS_BUS, ev_sub_at, ev_backlog_at>>
    /\ UNCHANGED <<SHUTTING_DOWN, videoVars, ev_sent, ev_attempts, sinkVars,
                   restVars, clientVars, log_calls>>

\* web_server.rs:150: the loop condition.
keep_streaming == ~SHUTTING_DOWN

EventsCheck(i) ==
    /\ ev[i].pc = "check"
    /\ ev' = [ev EXCEPT ![i].pc = IF keep_streaming THEN "next" ELSE "exit"]
    /\ UNCHANGED <<SHUTTING_DOWN, videoVars, ev_sent, ev_sub_at, ev_backlog_at,
                   busVars, sinkVars, restVars, clientVars, log_calls>>

\* web_server.rs:151: iter.next() blocks until the bus has an item for this
\* reader; it returns None only for a dropped Bus that has been drained.
EventsNext(i) ==
    /\ ev[i].pc = "next"
    /\ IF HasItem(EVENTS_BUS, i)
       THEN /\ ev' = [ev EXCEPT ![i].pc = "send", ![i].data = recv_item(EVENTS_BUS, i)]
            /\ EVENTS_BUS' = recv_advance(EVENTS_BUS, i)
       ELSE /\ EVENTS_BUS.closed
            /\ ev' = [ev EXCEPT ![i].pc = "check"]
            /\ UNCHANGED EVENTS_BUS
    /\ UNCHANGED <<SHUTTING_DOWN, videoVars, ev_sent, ev_sub_at, ev_backlog_at,
                   ev_attempts, sinkVars, restVars, clientVars, log_calls>>

\* A loop that takes an event from the bus and does not send it.
send_text_skipped(sent, data) == sent

\* web_server.rs:153: the event is serialized and sent as text.
send_text(sent, data) == Append(sent, to_string(data))

\* web_server.rs:152-157: send_text of the serialized event.
EventsSend(i) ==
    /\ ev[i].pc = "send"
    /\ \E send_ok \in BOOLEAN :
          IF send_ok
          THEN /\ ev_sent' = [ev_sent EXCEPT ![i] = send_text(@, ev[i].data)]
               /\ ev' = [ev EXCEPT ![i].pc = "check", ![i].data = <<>>]
               /\ UNCHANGED <<sinkVars, busVars>>
          ELSE /\ log("Info", MsgSendFailed)
               /\ ev' = [ev EXCEPT ![i].pc = "exit", ![i].data = <<>>, ![i].failed = TRUE]
               /\ UNCHANGED ev_sent
    /\ UNCHANGED <<SHUTTING_DOWN, videoVars, ev_sub_at, ev_backlog_at,
                   restVars, clientVars, log_calls>>

\* web_server.rs:160.
EventsExit(i) ==
    /\ ev[i].pc = "exit"
    /\ log("Error", MsgEventsFinished)
    /\ ev' = [ev EXCEPT ![i].pc = "drop"]
    /\ UNCHANGED <<SHUTTING_DOWN, videoVars, ev_sent, ev_sub_at, ev_backlog_at,
                   restVars, clientVars, log_calls>>

\* web_server.rs:161: the closure ends and the BusReader is dropped.
EventsDrop(i) ==
    /\ ev[i].pc = "drop"
    /\ EVENTS_BUS' = drop_rx(EVENTS_BUS, i)
    /\ ev' = [ev EXCEPT ![i].pc = "done"]
    /\ UNCHANGED <<SHUTTING_DOWN, videoVars, ev_sent, ev_sub_at, ev_backlog_at,
                   ev_attempts, sinkVars, restVars, clientVars, log_calls>>

\* ----------------------------------------------------- the rest of the process

\* SHUTTING_DOWN is set once, by the server's shutdown path.
Shutdown ==
    /\ ~SHUTTING_DOWN
    /\ SHUTTING_DOWN' = TRUE
    /\ UNCHANGED <<videoVars, eventVars, busVars, sinkVars, restVars,
                   clientVars, log_calls>>

\* A log call made anywhere in the process.
LogCall(level, m) ==
    /\ log_calls < MaxLog
    /\ log_calls' = log_calls + 1
    /\ log(level, m)
    /\ UNCHANGED <<SHUTTING_DOWN, videoVars, eventVars, restVars, clientVars>>

\* ------------------------------------------ web_server.rs: /api/video-mirror

\* DecoderInitializationConfig::config_buffer and an encoded video buffer.
ConfigBuffer == <<"config", 0>>

\* The None of DECODER_CONFIG.
NoConfig == [config_buffer |-> <<>>]
FrameBuffer(n) == <<"frame", n>>

\* web_server.rs:34-37 and 166-204: the request handler of /api/video-mirror.
HandleVideoRequest(v) ==
    /\ vid[v].pc = "idle"
    /\ IF is_shutting_down
       THEN vid' = [vid EXCEPT ![v].pc = "done", ![v].status = 503]
       ELSE \E is_websocket \in BOOLEAN :
               vid' = IF is_websocket
                      THEN [vid EXCEPT ![v].pc = "spawned", ![v].status = 101]
                      ELSE [vid EXCEPT ![v].pc = "done", ![v].status = 400]
    /\ UNCHANGED <<SHUTTING_DOWN, VIDEO_MIRROR_BUS, video_bus, DECODER_CONFIG, vid_sent,
                   vid_sub, idr_requests, frames, eventVars, busVars, sinkVars,
                   restVars, clientVars, log_calls>>

\* A subscription that does not replay the decoder configuration.
replay_config_skipped(bus, config) == bus

\* web_server.rs:179-181: the replay of the decoder configuration.
replay_config(bus, config) ==
    IF config # NoConfig THEN try_broadcast(bus, config.config_buffer) ELSE bus

\* web_server.rs:173-184: under the VIDEO_MIRROR_BUS lock a new Bus replaces
\* the one in the Option (which is dropped), the reader is added and the
\* decoder configuration is broadcast on the new Bus.
new_mirror_bus(v, config) ==
    replay_config(add_rx(Bus_new(WS_BROADCAST_CAPACITY), v), config)

VideoSubscribe(v) ==
    /\ vid[v].pc = "spawned"
    /\ \E websocket_ok \in BOOLEAN :
          IF websocket_ok
          THEN /\ video_bus' =
                     [b \in VideoSubs |->
                        IF b = v THEN new_mirror_bus(v, DECODER_CONFIG)
                        ELSE IF b = VIDEO_MIRROR_BUS
                        THEN [video_bus[b] EXCEPT !.closed = TRUE]
                        ELSE video_bus[b]]
               /\ VIDEO_MIRROR_BUS' = v
               /\ vid' = [vid EXCEPT ![v].pc = "idr"]
               /\ vid_sub' = [vid_sub EXCEPT ![v] =
                                 [config |-> DECODER_CONFIG, frames |-> frames,
                                  idr |-> idr_requests]]
          ELSE /\ vid' = [vid EXCEPT ![v].pc = "done"]
               /\ UNCHANGED <<VIDEO_MIRROR_BUS, video_bus, vid_sub>>
    /\ UNCHANGED <<SHUTTING_DOWN, DECODER_CONFIG, vid_sent, idr_requests, frames,
                   eventVars, busVars, sinkVars, restVars, clientVars, log_calls>>

\* web_server.rs:186.
VideoRequestIDR(v) ==
    /\ vid[v].pc = "idr"
    /\ idr_requests' = idr_requests + 1
    /\ vid' = [vid EXCEPT ![v].pc = "check"]
    /\ UNCHANGED <<SHUTTING_DOWN, VIDEO_MIRROR_BUS, video_bus, DECODER_CONFIG, vid_sent,
                   vid_sub, frames, eventVars, busVars, sinkVars, restVars,
                   clientVars, log_calls>>

\* web_server.rs:190.
VideoCheck(v) ==
    /\ vid[v].pc = "check"
    /\ vid' = [vid EXCEPT ![v].pc = IF keep_streaming THEN "next" ELSE "exit"]
    /\ UNCHANGED <<SHUTTING_DOWN, VIDEO_MIRROR_BUS, video_bus, DECODER_CONFIG, vid_sent,
                   vid_sub, idr_requests, frames, eventVars, busVars, sinkVars,
                   restVars, clientVars, log_calls>>

\* web_server.rs:191: iter.next() on the Bus this subscription created.
VideoNext(v) ==
    /\ vid[v].pc = "next"
    /\ IF HasItem(video_bus[v], v)
       THEN /\ vid' = [vid EXCEPT ![v].pc = "send", ![v].data = recv_item(video_bus[v], v)]
            /\ video_bus' = [video_bus EXCEPT ![v] = recv_advance(@, v)]
       ELSE /\ video_bus[v].closed
            /\ vid' = [vid EXCEPT ![v].pc = "check"]
            /\ UNCHANGED video_bus
    /\ UNCHANGED <<SHUTTING_DOWN, VIDEO_MIRROR_BUS, DECODER_CONFIG, vid_sent, vid_sub,
                   idr_requests, frames, eventVars, busVars, sinkVars, restVars,
                   clientVars, log_calls>>

\* web_server.rs:192-195.
VideoSend(v) ==
    /\ vid[v].pc = "send"
    /\ \E send_ok \in BOOLEAN :
          IF send_ok
          THEN /\ vid_sent' = [vid_sent EXCEPT ![v] = Append(@, vid[v].data)]
               /\ vid' = [vid EXCEPT ![v].pc = "check", ![v].data = <<>>]
               /\ UNCHANGED <<sinkVars, busVars>>
          ELSE /\ log("Info", MsgVideoSendFailed)
               /\ vid' = [vid EXCEPT ![v].pc = "exit", ![v].data = <<>>, ![v].failed = TRUE]
               /\ UNCHANGED vid_sent
    /\ UNCHANGED <<SHUTTING_DOWN, VIDEO_MIRROR_BUS, video_bus, DECODER_CONFIG, vid_sub,
                   idr_requests, frames, eventVars, restVars, clientVars, log_calls>>

\* web_server.rs:198.
VideoExit(v) ==
    /\ vid[v].pc = "exit"
    /\ log("Error", MsgVideoFinished)
    /\ vid' = [vid EXCEPT ![v].pc = "drop"]
    /\ UNCHANGED <<SHUTTING_DOWN, VIDEO_MIRROR_BUS, video_bus, DECODER_CONFIG, vid_sent,
                   vid_sub, idr_requests, frames, eventVars, restVars, clientVars,
                   log_calls>>

\* web_server.rs:199: the closure ends and the BusReader is dropped.
VideoDrop(v) ==
    /\ vid[v].pc = "drop"
    /\ video_bus' = [video_bus EXCEPT ![v] = drop_rx(@, v)]
    /\ vid' = [vid EXCEPT ![v].pc = "done"]
    /\ UNCHANGED <<SHUTTING_DOWN, VIDEO_MIRROR_BUS, DECODER_CONFIG, vid_sent, vid_sub,
                   idr_requests, frames, eventVars, busVars, sinkVars, restVars,
                   clientVars, log_calls>>

\* The encoder hands a video buffer to the mirror: a non-blocking publish on
\* the Bus VIDEO_MIRROR_BUS holds, if any.
SendVideo ==
    /\ frames < MaxFrames
    /\ frames' = frames + 1
    /\ video_bus' = IF VIDEO_MIRROR_BUS = None THEN video_bus
                    ELSE [video_bus EXCEPT ![VIDEO_MIRROR_BUS] =
                             try_broadcast(@, FrameBuffer(frames + 1))]
    /\ UNCHANGED <<SHUTTING_DOWN, VIDEO_MIRROR_BUS, DECODER_CONFIG, vid, vid_sent,
                   vid_sub, idr_requests, eventVars, busVars, sinkVars, restVars,
                   clientVars, log_calls>>

\* The encoder reports its decoder configuration.
SetDecoderConfig ==
    /\ DECODER_CONFIG = NoConfig
    /\ DECODER_CONFIG' = [config_buffer |-> ConfigBuffer]
    /\ UNCHANGED <<SHUTTING_DOWN, VIDEO_MIRROR_BUS, video_bus, vid, vid_sent, vid_sub,
                   idr_requests, frames, eventVars, busVars, sinkVars, restVars,
                   clientVars, log_calls>>

\* --------------------------------- web_server.rs: /api/dashboard-request

Hostnames == {"h1", "h2"}
Absent == "Absent"

\* alvr_session::ConnectionState.
DisconnectingToRemove == "Disconnecting{should_be_removed: true}"
ConnectionStates ==
    {"Disconnected", "Connecting", "Connected", "Streaming",
     "Disconnecting{should_be_removed: false}", DisconnectingToRemove}

\* alvr_packets::ClientListAction, the variants the model sends.
RemoveEntry == [tag |-> "RemoveEntry", state |-> None]
AddIfMissing == [tag |-> "AddIfMissing", state |-> None]
SetConnectionState(state) == [tag |-> "SetConnectionState", state |-> state]

\* ServerDataManager::update_client_list.
update_client_list(list, hostname, action) ==
    CASE action.tag = "RemoveEntry" -> [list EXCEPT ![hostname] = Absent]
      [] action.tag = "AddIfMissing" ->
            IF list[hostname] = Absent
            THEN [list EXCEPT ![hostname] = "Disconnected"] ELSE list
      [] action.tag = "SetConnectionState" ->
            IF list[hostname] # Absent
            THEN [list EXCEPT ![hostname] = action.state] ELSE list

\* A removal that does not look at the connection state.
removal_of_direct(connection_state, action) == action

\* web_server.rs:64-75: what a RemoveEntry request does to an entry that
\* exists.
removal_of(connection_state, action) ==
    IF connection_state # "Disconnected"
    THEN SetConnectionState(DisconnectingToRemove)
    ELSE action

\* web_server.rs:61-79.
apply_client_list_action(list, hostname, action) ==
    IF action.tag = "RemoveEntry"
    THEN IF list[hostname] # Absent
         THEN update_client_list(list, hostname, removal_of(list[hostname], action))
         ELSE list
    ELSE update_client_list(list, hostname, action)

\* A handler that notifies nobody.
notify_disconnect_never(notifier, sent) == sent

\* web_server.rs:81-83.
notify_disconnect(notifier, sent) == IF notifier THEN sent + 1 ELSE sent

\* web_server.rs:34-37, 39-44, 60-84 and 134: one UpdateClientList request.
UpdateClientList(hostname, action) ==
    /\ requests < MaxRequests
    /\ requests' = requests + 1
    /\ IF is_shutting_down
       THEN /\ last_request' = [hostname |-> hostname, action |-> action, status |-> 503,
                                before |-> client_list, after |-> client_list,
                                notifier |-> DISCONNECT_CLIENT_NOTIFIER,
                                notified_before |-> notified, notified_after |-> notified]
            /\ response' = Respond(requests + 1, "/api/dashboard-request",
                                   "UpdateClientList", 503)
            /\ UNCHANGED <<client_list, notified>>
       ELSE /\ client_list' = apply_client_list_action(client_list, hostname, action)
            /\ response' = Respond(requests + 1, "/api/dashboard-request",
                                   "UpdateClientList", 204)
            /\ notified' = notify_disconnect(DISCONNECT_CLIENT_NOTIFIER, notified)
            /\ last_request' = [hostname |-> hostname, action |-> action, status |-> 204,
                                before |-> client_list, after |-> client_list',
                                notifier |-> DISCONNECT_CLIENT_NOTIFIER,
                                notified_before |-> notified, notified_after |-> notified']
    /\ UNCHANGED <<SHUTTING_DOWN, videoVars, eventVars, busVars, sinkVars, level_filter,
                   dispatchVars, lockVars, DISCONNECT_CLIENT_NOTIFIER, log_calls>>

\* web_server.rs:34-37 and 40-44: a dashboard request with no body, or with a
\* body that is no ServerRequest.
MalformedDashboardRequest ==
    /\ requests < MaxRequests
    /\ requests' = requests + 1
    /\ last_request' = [hostname |-> None, action |-> [tag |-> None, state |-> None],
                        status |-> IF is_shutting_down THEN 503 ELSE 400,
                        before |-> client_list, after |-> client_list,
                        notifier |-> DISCONNECT_CLIENT_NOTIFIER,
                        notified_before |-> notified, notified_after |-> notified]
    /\ response' = Respond(requests + 1, "/api/dashboard-request", "Malformed",
                           IF is_shutting_down THEN 503 ELSE 400)
    /\ UNCHANGED <<SHUTTING_DOWN, videoVars, eventVars, busVars, sinkVars, level_filter,
                   dispatchVars, lockVars, client_list, DISCONNECT_CLIENT_NOTIFIER, notified,
                   log_calls>>

\* alvr_events::send_event: the serialized event, logged at Info.
send_event(tag) == log("Info", <<"{", tag, "}">>)

\* LogSeverity::into_log_level.
into_log_level(severity) ==
    CASE severity = "Error"   -> "Error"
      [] severity = "Warning" -> "Warn"
      [] severity = "Info"    -> "Info"
      [] OTHER                -> "Debug"

Severities == {"Error", "Warning", "Info", "Debug"}
MsgFirewallOk == <<"Setting firewall rules succeeded!">>
MsgFirewallFailed == <<"Setting firewall rules failed!">>

\* The ServerRequest values of the model, UpdateClientList apart.
Request(tag) == [tag |-> tag, severity |-> None, content |-> <<>>]
LogRequest(severity, content) == [tag |-> "Log", severity |-> severity, content |-> content]
LogContents == {PlainMessage, SerializedSession, <<"{", "}">>}
ServerRequests ==
    {LogRequest(s, c) : s \in Severities, c \in LogContents} \cup
    {Request(tag) : tag \in {"GetSession", "UpdateSession", "SetValues", "GetAudioDevices",
                             "CaptureFrame", "InsertIdr", "StartRecording", "StopRecording",
                             "FirewallRules", "RegisterAlvrDriver", "UnregisterDriver",
                             "GetDriverList", "RestartSteamvr", "ShutdownSteamvr"}}

\* A dispatcher that logs every dashboard Log request at Info.
log_request_as_info(req) == log("Info", req.content)

\* web_server.rs:45-48: the Log arm.
log_request(req) == log(into_log_level(req.severity), req.content)

\* rouille answers 500 when the handler panics; the dispatcher answers 204.
dispatch_status(req) ==
    IF req.tag = "Log" /\ Enabled(into_log_level(req.severity)) /\ unwrap_panics(req.content)
    THEN 500 ELSE 204

\* web_server.rs:44-132: the arms of the dispatcher, UpdateClientList apart.
dispatch(req) ==
    \/ /\ req.tag = "Log"
       /\ log_request(req)
       /\ UNCHANGED <<dispatchVars, idr_requests>>
    \/ /\ req.tag = "GetSession"
       /\ send_event("Session")
       /\ UNCHANGED <<dispatchVars, idr_requests>>
    \/ /\ req.tag = "UpdateSession"
       /\ session' = 1 - session
       /\ UNCHANGED <<sinkVars, busVars, calls, recording, idr_requests>>
    \/ /\ req.tag = "SetValues"
       /\ \E ok \in BOOLEAN : session' = IF ok THEN 1 - session ELSE session
       /\ UNCHANGED <<sinkVars, busVars, calls, recording, idr_requests>>
    \/ /\ req.tag = "GetAudioDevices"
       /\ calls' = calls + 1
       /\ \E ok \in BOOLEAN :
             IF ok THEN send_event("AudioDevices") ELSE UNCHANGED <<sinkVars, busVars>>
       /\ UNCHANGED <<session, recording, idr_requests>>
    \/ /\ req.tag = "CaptureFrame"
       /\ calls' = calls + 1
       /\ UNCHANGED <<sinkVars, busVars, session, recording, idr_requests>>
    \/ /\ req.tag = "InsertIdr"
       /\ idr_requests' = idr_requests + 1
       /\ UNCHANGED <<sinkVars, busVars, dispatchVars>>
    \/ /\ req.tag = "StartRecording"
       /\ calls' = calls + 1
       /\ recording' = TRUE
       /\ UNCHANGED <<sinkVars, busVars, session, idr_requests>>
    \/ /\ req.tag = "StopRecording"
       /\ recording' = FALSE
       /\ UNCHANGED <<sinkVars, busVars, session, calls, idr_requests>>
    \/ /\ req.tag = "FirewallRules"
       /\ calls' = calls + 1
       /\ \E ok \in BOOLEAN :
             IF ok THEN log("Info", MsgFirewallOk) ELSE log("Error", MsgFirewallFailed)
       /\ UNCHANGED <<session, recording, idr_requests>>
    \/ /\ req.tag \in {"RegisterAlvrDriver", "UnregisterDriver"}
       /\ calls' = calls + 2
       /\ \E ok \in BOOLEAN :
             IF ok THEN send_event("DriversList") ELSE UNCHANGED <<sinkVars, busVars>>
       /\ UNCHANGED <<session, recording, idr_requests>>
    \/ /\ req.tag = "GetDriverList"
       /\ calls' = calls + 1
       /\ \E ok \in BOOLEAN :
             IF ok THEN send_event("DriversList") ELSE UNCHANGED <<sinkVars, busVars>>
       /\ UNCHANGED <<session, recording, idr_requests>>
    \/ /\ req.tag \in {"RestartSteamvr", "ShutdownSteamvr"}
       /\ calls' = calls + 1
       /\ UNCHANGED <<sinkVars, busVars, session, recording, idr_requests>>

\* web_server.rs:34-37, 39-44 and 134: a well-formed dashboard request.
DashboardRequest(req) ==
    /\ requests < MaxRequests
    /\ requests' = requests + 1
    /\ IF is_shutting_down
       THEN /\ response' = Respond(requests + 1, "/api/dashboard-request", req.tag, 503)
            /\ UNCHANGED <<sinkVars, busVars, dispatchVars, idr_requests>>
       ELSE /\ dispatch(req)
            /\ response' = Respond(requests + 1, "/api/dashboard-request", req.tag,
                                   dispatch_status(req))
    /\ UNCHANGED <<SHUTTING_DOWN, VIDEO_MIRROR_BUS, video_bus, DECODER_CONFIG, vid, vid_sent,
                   vid_sub, frames, eventVars, level_filter, lockVars, client_list,
                   DISCONNECT_CLIENT_NOTIFIER, notified, last_request, log_calls>>

\* web_server.rs:34-37 and 205-229: /api/set-buttons with no body, with a
\* body that is no list of ButtonEvent, or with a list of buttons.
ButtonBodies == {"NoBody", "Malformed", "0", "1", "2"}
ButtonCount(body) == CASE body = "1" -> 1 [] body = "2" -> 2 [] OTHER -> 0
SetButtons(body) ==
    /\ requests < MaxRequests
    /\ requests' = requests + 1
    /\ IF is_shutting_down
       THEN /\ response' = Respond(requests + 1, "/api/set-buttons", body, 503)
            /\ UNCHANGED calls
       ELSE IF body \in {"NoBody", "Malformed"}
       THEN /\ response' = Respond(requests + 1, "/api/set-buttons", body, 400)
            /\ UNCHANGED calls
       ELSE /\ calls' = calls + ButtonCount(body)
            /\ response' = Respond(requests + 1, "/api/set-buttons", body, 204)
    /\ UNCHANGED <<SHUTTING_DOWN, videoVars, eventVars, busVars, sinkVars, level_filter,
                   session, recording, lockVars, client_list, DISCONNECT_CLIENT_NOTIFIER,
                   notified, last_request, log_calls>>

\* web_server.rs:34-37 and 230: /api/ping.
Ping ==
    /\ requests < MaxRequests
    /\ requests' = requests + 1
    /\ response' = Respond(requests + 1, "/api/ping", None,
                           IF is_shutting_down THEN 503 ELSE 204)
    /\ UNCHANGED <<SHUTTING_DOWN, videoVars, eventVars, busVars, sinkVars, level_filter,
                   dispatchVars, lockVars, client_list, DISCONNECT_CLIENT_NOTIFIER, notified,
                   last_request, log_calls>>

\* web_server.rs:34-37 and 231-252: any other URI is a file of the ui
\* directory, found or not.
StaticFile(found) ==
    /\ requests < MaxRequests
    /\ requests' = requests + 1
    /\ response' = Respond(requests + 1, "/index.html", None,
                           IF is_shutting_down THEN 503 ELSE IF found THEN 200 ELSE 404)
    /\ UNCHANGED <<SHUTTING_DOWN, videoVars, eventVars, busVars, sinkVars, level_filter,
                   dispatchVars, lockVars, client_list, DISCONNECT_CLIENT_NOTIFIER, notified,
                   last_request, log_calls>>

\* The connection-management collaborator moves a client through its
\* connection states, and removes an entry it was asked to remove once the
\* teardown is complete.
ConnectionChange(hostname, state) ==
    /\ client_list[hostname] # Absent
    /\ client_list[hostname] # state
    /\ client_list' =
          IF client_list[hostname] = DisconnectingToRemove
          THEN [client_list EXCEPT ![hostname] = Absent]
          ELSE [client_list EXCEPT ![hostname] = state]
    /\ UNCHANGED <<SHUTTING_DOWN, videoVars, eventVars, busVars, sinkVars, restVars,
                   DISCONNECT_CLIENT_NOTIFIER, notified, requests, last_request, log_calls>>

\* The collaborator installs its notifier when a connection starts and takes
\* it away when the connection ends.
SetNotifier ==
    /\ DISCONNECT_CLIENT_NOTIFIER' = ~DISCONNECT_CLIENT_NOTIFIER
    /\ UNCHANGED <<SHUTTING_DOWN, videoVars, eventVars, busVars, sinkVars, restVars,
                   client_list, notified, requests, last_request, log_calls>>

\* The session log file stops taking writes (disk full, file gone) and
\* takes them again.
SinkFault ==
    /\ sink_ok' = ~sink_ok
    /\ UNCHANGED <<SHUTTING_DOWN, videoVars, eventVars, busVars, session_log, crash_log,
                   clock, panicked, log_records, session_file, restVars, clientVars,
                   log_calls>>

\* ------------------------------------------------------------------- locks

\* The same handlers and threads, one step per lock operation. A guard lives
\* from the step that takes the lock to the step that ends the statement or
\* block holding it. A log call takes and releases the EVENTS_BUS lock inside
\* the format closure; try_broadcast never waits, so a log call made by a
\* thread that goes on without the lock is one step, taken when the lock is
\* free.

Locks == {"SERVER_DATA_MANAGER", "EVENTS_BUS", "VIDEO_MIRROR_BUS", "DECODER_CONFIG",
          "DISCONNECT_CLIENT_NOTIFIER", "VIDEO_RECORDING_FILE"}

\* The handlers of the dashboard requests that take locks, and the two
\* publishers: a thread that logs and the encoder.
Readers == {"GetSession", "GetAudioDevices"}
LockThreads == Readers \cup {"UpdateClientList", "StopRecording", "logger", "encoder"}

dataVars == <<SHUTTING_DOWN, videoVars, eventVars, busVars, sinkVars, level_filter,
              dispatchVars, response, clientVars, log_calls>>

Free(lock) == held[lock] = {}
acquire(h, lock, t) == [h EXCEPT ![lock] = @ \cup {t}]

\* A guard that is never dropped.
release_never(h, lock, t) == h

\* The drop of a guard at the end of its statement or block.
release(h, lock, t) == [h EXCEPT ![lock] = @ \ {t}]

\* SERVER_DATA_MANAGER is a reader-writer lock: readers share it.
CanRead == held["SERVER_DATA_MANAGER"] \cap {"UpdateClientList"} = {}

\* The handler answers and its thread is done.
respond(t, status) ==
    /\ requests' = requests + 1
    /\ response' = Respond(requests + 1, "/api/dashboard-request", t, status)
    /\ lt' = [lt EXCEPT ![t] = "done"]

\* web_server.rs:34-37, 51 and 86: SERVER_DATA_MANAGER.read() of GetSession and
\* GetAudioDevices; the guard is a temporary of the statement.
ReadLock(h) ==
    /\ lt[h] = "idle"
    /\ IF is_shutting_down
       THEN respond(h, 503) /\ UNCHANGED held
       ELSE /\ CanRead
            /\ held' = acquire(held, "SERVER_DATA_MANAGER", h)
            /\ lt' = [lt EXCEPT ![h] = IF h = "GetAudioDevices" THEN "listing" ELSE "read"]
            /\ UNCHANGED <<requests, response>>
    /\ UNCHANGED <<SHUTTING_DOWN, videoVars, eventVars, busVars, sinkVars, level_filter,
                   dispatchVars, client_list, DISCONNECT_CLIENT_NOTIFIER, notified,
                   last_request, log_calls>>

\* web_server.rs:86: get_audio_devices_list() on the read guard.
ListDevices ==
    /\ lt["GetAudioDevices"] = "listing"
    /\ calls' = calls + 1
    /\ \E ok \in BOOLEAN :
          lt' = [lt EXCEPT !["GetAudioDevices"] = IF ok THEN "read" ELSE "sent"]
    /\ UNCHANGED <<SHUTTING_DOWN, videoVars, eventVars, busVars, sinkVars, level_filter,
                   session, recording, response, held, clientVars, log_calls>>

\* web_server.rs:50-52 and 87: send_event, whose log call takes the
\* EVENTS_BUS lock in the sink (logging_backend.rs:27).
SendEvent(h) ==
    /\ lt[h] = "read"
    /\ Free("EVENTS_BUS")
    /\ held' = acquire(held, "EVENTS_BUS", h)
    /\ send_event(IF h = "GetSession" THEN "Session" ELSE "AudioDevices")
    /\ lt' = [lt EXCEPT ![h] = "sending"]
    /\ UNCHANGED <<SHUTTING_DOWN, videoVars, eventVars, level_filter, dispatchVars,
                   response, clientVars, log_calls>>

\* logging_backend.rs:29: the end of the if let drops the EVENTS_BUS guard.
EventSent(h) ==
    /\ lt[h] = "sending"
    /\ held' = release(held, "EVENTS_BUS", h)
    /\ lt' = [lt EXCEPT ![h] = "sent"]
    /\ UNCHANGED dataVars

\* web_server.rs:53, 89 and 134: the statement ends, the read guard is dropped
\* and the handler answers 204.
ReadRespond(h) ==
    /\ lt[h] = "sent"
    /\ held' = release(held, "SERVER_DATA_MANAGER", h)
    /\ respond(h, 204)
    /\ UNCHANGED <<SHUTTING_DOWN, videoVars, eventVars, busVars, sinkVars, level_filter,
                   dispatchVars, client_list, DISCONNECT_CLIENT_NOTIFIER, notified,
                   last_request, log_calls>>

\* An UpdateClientList arm that takes the notifier lock before the
\* server-state lock.
clients_locks_reversed == <<"DISCONNECT_CLIENT_NOTIFIER", "SERVER_DATA_MANAGER">>

\* web_server.rs:61 and 81: the locks of the UpdateClientList arm, in the
\* order it takes them.
clients_locks == <<"SERVER_DATA_MANAGER", "DISCONNECT_CLIENT_NOTIFIER">>

\* web_server.rs:34-37 and 61: let mut data_manager = SERVER_DATA_MANAGER.write().
ClientsLock ==
    /\ lt["UpdateClientList"] = "idle"
    /\ IF is_shutting_down
       THEN respond("UpdateClientList", 503) /\ UNCHANGED held
       ELSE /\ Free(clients_locks[1])
            /\ held' = acquire(held, clients_locks[1], "UpdateClientList")
            /\ lt' = [lt EXCEPT !["UpdateClientList"] = "write"]
            /\ UNCHANGED <<requests, response>>
    /\ UNCHANGED <<SHUTTING_DOWN, videoVars, eventVars, busVars, sinkVars, level_filter,
                   dispatchVars, client_list, DISCONNECT_CLIENT_NOTIFIER, notified,
                   last_request, log_calls>>

\* web_server.rs:62-79: the update under the write guard.
ClientsUpdate(hostname, action) ==
    /\ lt["UpdateClientList"] = "write"
    /\ client_list' = apply_client_list_action(client_list, hostname, action)
    /\ lt' = [lt EXCEPT !["UpdateClientList"] = "updated"]
    /\ UNCHANGED <<SHUTTING_DOWN, videoVars, eventVars, busVars, sinkVars, level_filter,
                   dispatchVars, response, held, DISCONNECT_CLIENT_NOTIFIER, notified,
                   requests, last_request, log_calls>>

\* web_server.rs:81-83: DISCONNECT_CLIENT_NOTIFIER.lock() and the send.
ClientsNotify ==
    /\ lt["UpdateClientList"] = "updated"
    /\ Free(clients_locks[2])
    /\ held' = acquire(held, clients_locks[2], "UpdateClientList")
    /\ notified' = notify_disconnect(DISCONNECT_CLIENT_NOTIFIER, notified)
    /\ lt' = [lt EXCEPT !["UpdateClientList"] = "notifying"]
    /\ UNCHANGED <<SHUTTING_DOWN, videoVars, eventVars, busVars, sinkVars, level_filter,
                   dispatchVars, response, client_list, DISCONNECT_CLIENT_NOTIFIER,
                   requests, last_request, log_calls>>

\* web_server.rs:83-84 and 134: both guards are dropped at the end of the arm.
ClientsRespond ==
    /\ lt["UpdateClientList"] = "notifying"
    /\ held' = release(release(held, clients_locks[2], "UpdateClientList"),
                       clients_locks[1], "UpdateClientList")
    /\ respond("UpdateClientList", 204)
    /\ UNCHANGED <<SHUTTING_DOWN, videoVars, eventVars, busVars, sinkVars, level_filter,
                   dispatchVars, client_list, DISCONNECT_CLIENT_NOTIFIER, notified,
                   last_request, log_calls>>

\* web_server.rs:34-37 and 93: *VIDEO_RECORDING_FILE.lock() = None.
RecordingLock ==
    /\ lt["StopRecording"] = "idle"
    /\ IF is_shutting_down
       THEN respond("StopRecording", 503) /\ UNCHANGED <<held, recording>>
       ELSE /\ Free("VIDEO_RECORDING_FILE")
            /\ held' = acquire(held, "VIDEO_RECORDING_FILE", "StopRecording")
            /\ recording' = FALSE
            /\ lt' = [lt EXCEPT !["StopRecording"] = "stored"]
            /\ UNCHANGED <<requests, response>>
    /\ UNCHANGED <<SHUTTING_DOWN, videoVars, eventVars, busVars, sinkVars, level_filter,
                   session, calls, client_list, DISCONNECT_CLIENT_NOTIFIER, notified,
                   last_request, log_calls>>

\* web_server.rs:93 and 134.
RecordingRespond ==
    /\ lt["StopRecording"] = "stored"
    /\ held' = release(held, "VIDEO_RECORDING_FILE", "StopRecording")
    /\ respond("StopRecording", 204)
    /\ UNCHANGED <<SHUTTING_DOWN, videoVars, eventVars, busVars, sinkVars, level_filter,
                   dispatchVars, client_list, DISCONNECT_CLIENT_NOTIFIER, notified,
                   last_request, log_calls>>

\* logging_backend.rs:11-28: a log call of another thread, up to the
\* try_broadcast under the EVENTS_BUS lock.
LogLock ==
    /\ lt["logger"] = "idle"
    /\ Free("EVENTS_BUS")
    /\ held' = acquire(held, "EVENTS_BUS", "logger")
    /\ log("Info", PlainMessage)
    /\ lt' = [lt EXCEPT !["logger"] = "publishing"]
    /\ UNCHANGED <<SHUTTING_DOWN, videoVars, eventVars, level_filter, dispatchVars,
                   response, clientVars, log_calls>>

\* logging_backend.rs:29.
LogUnlock ==
    /\ lt["logger"] = "publishing"
    /\ held' = release(held, "EVENTS_BUS", "logger")
    /\ lt' = [lt EXCEPT !["logger"] = "done"]
    /\ UNCHANGED dataVars

\* The encoder's publish of one video buffer: try_broadcast under the
\* VIDEO_MIRROR_BUS lock.
FrameLock ==
    /\ lt["encoder"] = "idle"
    /\ Free("VIDEO_MIRROR_BUS")
    /\ held' = acquire(held, "VIDEO_MIRROR_BUS", "encoder")
    /\ frames' = frames + 1
    /\ video_bus' = IF VIDEO_MIRROR_BUS = None THEN video_bus
                    ELSE [video_bus EXCEPT ![VIDEO_MIRROR_BUS] =
                             try_broadcast(@, FrameBuffer(frames + 1))]
    /\ lt' = [lt EXCEPT !["encoder"] = "publishing"]
    /\ UNCHANGED <<SHUTTING_DOWN, VIDEO_MIRROR_BUS, DECODER_CONFIG, vid, vid_sent,
                   vid_sub, idr_requests, eventVars, busVars, sinkVars, level_filter,
                   dispatchVars, response, clientVars, log_calls>>

FrameUnlock ==
    /\ lt["encoder"] = "publishing"
    /\ held' = release(held, "VIDEO_MIRROR_BUS", "encoder")
    /\ lt' = [lt EXCEPT !["encoder"] = "done"]
    /\ UNCHANGED dataVars

\* web_server.rs:142-143: the thread waits for the websocket, then takes the
\* EVENTS_BUS lock.
EventsBusLock(i) ==
    /\ ev[i].pc = "spawned"
    /\ \E websocket_ok \in BOOLEAN :
          IF websocket_ok
          THEN /\ Free("EVENTS_BUS")
               /\ held' = acquire(held, "EVENTS_BUS", i)
               /\ ev' = [ev EXCEPT ![i].pc = "subscribing"]
          ELSE /\ ev' = [ev EXCEPT ![i].pc = "done"]
               /\ UNCHANGED held
    /\ UNCHANGED <<SHUTTING_DOWN, videoVars, ev_sent, ev_sub_at, ev_backlog_at, busVars,
                   sinkVars, level_filter, dispatchVars, response, lt, clientVars,
                   log_calls>>

\* web_server.rs:143-147: add_rx under the lock; the guard is dropped at the
\* end of the let statement, before the loop.
EventsBusUnlock(i) ==
    /\ ev[i].pc = "subscribing"
    /\ held' = release(held, "EVENTS_BUS", i)
    /\ IF EVENTS_BUS.some
       THEN /\ EVENTS_BUS' = subscribe_events(EVENTS_BUS, i)
            /\ ev' = [ev EXCEPT ![i].pc = "check"]
            /\ ev_sub_at' = [ev_sub_at EXCEPT ![i] = Len(ev_attempts)]
            /\ ev_backlog_at' = [ev_backlog_at EXCEPT ![i] = Buffered(EVENTS_BUS)]
       ELSE /\ ev' = [ev EXCEPT ![i].pc = "done"]
            /\ UNCHANGED <<EVENTS_BUS, ev_sub_at, ev_backlog_at>>
    /\ UNCHANGED <<SHUTTING_DOWN, videoVars, ev_sent, ev_attempts, sinkVars, level_filter,
                   dispatchVars, response, lt, clientVars, log_calls>>

\* The /api/events thread with its lock operations; its own log calls wait
\* for the EVENTS_BUS lock.
EventsThreadLocks(i) ==
    \/ Free("EVENTS_BUS") /\ HandleEventsRequest(i)
    \/ EventsBusLock(i)
    \/ EventsBusUnlock(i)
    \/ EventsCheck(i)
    \/ EventsNext(i)
    \/ Free("EVENTS_BUS") /\ EventsSend(i)
    \/ Free("EVENTS_BUS") /\ EventsExit(i)
    \/ EventsDrop(i)

\* web_server.rs:172-174: the thread waits for the websocket, then takes the
\* VIDEO_MIRROR_BUS lock.
VideoBusLock(v) ==
    /\ vid[v].pc = "spawned"
    /\ \E websocket_ok \in BOOLEAN :
          IF websocket_ok
          THEN /\ Free("VIDEO_MIRROR_BUS")
               /\ held' = acquire(held, "VIDEO_MIRROR_BUS", v)
               /\ vid' = [vid EXCEPT ![v].pc = "subscribing"]
          ELSE /\ vid' = [vid EXCEPT ![v].pc = "done"]
               /\ UNCHANGED held
    /\ UNCHANGED <<SHUTTING_DOWN, VIDEO_MIRROR_BUS, video_bus, DECODER_CONFIG, vid_sent,
                   vid_sub, idr_requests, frames, eventVars, busVars, sinkVars,
                   level_filter, dispatchVars, response, lt, clientVars, log_calls>>

\* web_server.rs:175-181: the new Bus, its reader, and the replay of the
\* decoder configuration under the DECODER_CONFIG lock.
VideoConfigLock(v) ==
    /\ vid[v].pc = "subscribing"
    /\ Free("DECODER_CONFIG")
    /\ held' = acquire(held, "DECODER_CONFIG", v)
    /\ video_bus' =
          [b \in VideoSubs |->
             IF b = v THEN new_mirror_bus(v, DECODER_CONFIG)
             ELSE IF b = VIDEO_MIRROR_BUS
             THEN [video_bus[b] EXCEPT !.closed = TRUE]
             ELSE video_bus[b]]
    /\ VIDEO_MIRROR_BUS' = v
    /\ vid' = [vid EXCEPT ![v].pc = "replayed"]
    /\ vid_sub' = [vid_sub EXCEPT ![v] =
                      [config |-> DECODER_CONFIG, frames |-> frames, idr |-> idr_requests]]
    /\ UNCHANGED <<SHUTTING_DOWN, DECODER_CONFIG, vid_sent, idr_requests, frames,
                   eventVars, busVars, sinkVars, level_filter, dispatchVars, response, lt,
                   clientVars, log_calls>>

\* web_server.rs:181-184: the if let and the block end; both guards are
\* dropped before RequestIDR and the loop.
VideoBusUnlock(v) ==
    /\ vid[v].pc = "replayed"
    /\ held' = release(release(held, "DECODER_CONFIG", v), "VIDEO_MIRROR_BUS", v)
    /\ vid' = [vid EXCEPT ![v].pc = "idr"]
    /\ UNCHANGED <<SHUTTING_DOWN, VIDEO_MIRROR_BUS, video_bus, DECODER_CONFIG, vid_sent,
                   vid_sub, idr_requests, frames, eventVars, busVars, sinkVars,
                   level_filter, dispatchVars, response, lt, clientVars, log_calls>>

\* The /api/video-mirror thread with its lock operations.
VideoThreadLocks(v) ==
    \/ HandleVideoRequest(v)
    \/ VideoBusLock(v)
    \/ VideoConfigLock(v)
    \/ VideoBusUnlock(v)
    \/ VideoRequestIDR(v)
    \/ VideoCheck(v)
    \/ VideoNext(v)
    \/ Free("EVENTS_BUS") /\ VideoSend(v)
    \/ Free("EVENTS_BUS") /\ VideoExit(v)
    \/ VideoDrop(v)

\* ------------------------------------------------------------ specifications

NoRequest == [hostname |-> None, action |-> [tag |-> None, state |-> None], status |-> 0,
              before |-> <<>>, after |-> <<>>, notifier |-> FALSE,
              notified_before |-> 0, notified_after |-> 0]

Idle == [pc |-> "idle", data |-> <<>>, status |-> 0, failed |-> FALSE]

\* The messages of the log calls of the rest of the process.
Messages == {PlainMessage, SerializedSession, SerializedLog, <<"{", "Session">>, <<"{", "}">>}

Init ==
    /\ SHUTTING_DOWN = FALSE
    /\ EVENTS_BUS \in {NoBus, Bus_new(WS_BROADCAST_CAPACITY)}
    /\ VIDEO_MIRROR_BUS = None
    /\ video_bus = [v \in VideoSubs |-> NoBus]
    /\ DECODER_CONFIG = NoConfig
    /\ ev = [i \in EventSubs |-> Idle]
    /\ vid = [v \in VideoSubs |-> Idle]
    /\ ev_sent = [i \in EventSubs |-> <<>>]
    /\ vid_sent = [v \in VideoSubs |-> <<>>]
    /\ level_filter \in {"Debug", "Info"}
    /\ session_log = <<>>
    /\ crash_log = <<>>
    /\ clock = 0
    /\ panicked = FALSE
    /\ log_records = <<>>
    /\ sink_ok = TRUE
    /\ session_file = <<>>
    /\ session = 0
    /\ calls = 0
    /\ recording = FALSE
    /\ response = Respond(0, None, None, 0)
    /\ held = [l \in Locks |-> {}]
    /\ lt = [t \in LockThreads |-> "idle"]
    /\ client_list \in [Hostnames -> {Absent, "Disconnected"}]
    /\ DISCONNECT_CLIENT_NOTIFIER = FALSE
    /\ notified = 0
    /\ idr_requests = 0
    /\ requests = 0
    /\ last_request = NoRequest
    /\ log_calls = 0
    /\ frames = 0
    /\ ev_attempts = <<>>
    /\ ev_sub_at = [i \in EventSubs |-> 0]
    /\ ev_backlog_at = [i \in EventSubs |-> 0]
    /\ vid_sub = [v \in VideoSubs |-> [config |-> NoConfig, frames |-> 0, idr |-> 0]]

EventsThread(i) ==
    \/ HandleEventsRequest(i)
    \/ EventsSubscribe(i)
    \/ EventsCheck(i)
    \/ EventsNext(i)
    \/ EventsSend(i)
    \/ EventsExit(i)
    \/ EventsDrop(i)

VideoThread(v) ==
    \/ HandleVideoRequest(v)
    \/ VideoSubscribe(v)
    \/ VideoRequestIDR(v)
    \/ VideoCheck(v)
    \/ VideoNext(v)
    \/ VideoSend(v)
    \/ VideoExit(v)
    \/ VideoDrop(v)

Next ==
    \/ \E i \in EventSubs : EventsThread(i)
    \/ \E v \in VideoSubs : VideoThread(v)
    \/ \E level \in {"Error", "Info", "Debug"}, m \in Messages : LogCall(level, m)
    \/ SendVideo
    \/ SetDecoderConfig
    \/ \E h \in Hostnames, a \in {RemoveEntry, AddIfMissing} : UpdateClientList(h, a)
    \/ MalformedDashboardRequest
    \/ \E h \in Hostnames, s \in ConnectionStates : ConnectionChange(h, s)
    \/ SetNotifier
    \/ \E req \in ServerRequests : DashboardRequest(req)
    \/ \E body \in ButtonBodies : SetButtons(body)
    \/ Ping
    \/ \E found \in BOOLEAN : StaticFile(found)
    \/ SinkFault
    \/ Shutdown

Spec == Init /\ [][Next]_vars

\* The event stream: the /api/events connections, the log calls and shutdown.
InitEvents ==
    /\ Init
    /\ level_filter = "Info"
    /\ client_list = [h \in Hostnames |-> Absent]

NextEvents ==
    \/ \E i \in EventSubs : EventsThread(i)
    \/ LogCall("Info", PlainMessage)
    \/ Shutdown

SpecEvents == InitEvents /\ [][NextEvents]_vars

\* The video mirror: the /api/video-mirror connections, the encoder and
\* shutdown.
InitVideo ==
    /\ Init
    /\ EVENTS_BUS.some
    /\ level_filter = "Info"
    /\ client_list = [h \in Hostnames |-> Absent]

NextVideo ==
    \/ \E v \in VideoSubs : VideoThread(v)
    \/ SendVideo
    \/ SetDecoderConfig
    \/ Shutdown

SpecVideo == InitVideo /\ [][NextVideo]_vars

\* The client list: UpdateClientList requests against the collaborator.
InitClients ==
    /\ Init
    /\ EVENTS_BUS.some
    /\ level_filter = "Info"

NextClients ==
    \/ \E h \in Hostnames, a \in {RemoveEntry, AddIfMissing} : UpdateClientList(h, a)
    \/ MalformedDashboardRequest
    \/ \E h \in Hostnames, s \in ConnectionStates : ConnectionChange(h, s)
    \/ SetNotifier
    \/ Shutdown

SpecClients == InitClients /\ [][NextClients]_vars

\* The log sink: log calls of every level and shape, with one /api/events
\* connection reading the bus.
InitLog ==
    /\ Init
    /\ EVENTS_BUS.some
    /\ client_list = [h \in Hostnames |-> Absent]

NextLog ==
    \/ EventsThread("e1")
    \/ \E level \in {"Error", "Info", "Debug"}, m \in Messages : LogCall(level, m)

SpecLog == InitLog /\ [][NextLog]_vars

\* The request handler: every route, with one connection on each streaming
\* route, and shutdown.
RouteRequests ==
    {req \in ServerRequests : req.tag = "Log" => req = LogRequest("Info", PlainMessage)}

InitRoutes ==
    /\ Init
    /\ EVENTS_BUS.some
    /\ level_filter = "Info"
    /\ client_list = [h \in Hostnames |-> "Disconnected"]

NextRoutes ==
    \/ \E req \in RouteRequests : DashboardRequest(req)
    \/ UpdateClientList("h1", RemoveEntry)
    \/ MalformedDashboardRequest
    \/ \E body \in ButtonBodies : SetButtons(body)
    \/ Ping
    \/ \E found \in BOOLEAN : StaticFile(found)
    \/ HandleEventsRequest("e1")
    \/ HandleVideoRequest("v1")
    \/ Shutdown

SpecRoutes == InitRoutes /\ [][NextRoutes]_vars

\* Every lock operation of the handlers, of the publishers and of the
\* streaming threads, interleaved. The streaming threads take no lock after
\* they have subscribed; their loops are in NextPublish.
NextLocks ==
    \/ \E h \in Readers : ReadLock(h) \/ SendEvent(h) \/ EventSent(h) \/ ReadRespond(h)
    \/ ListDevices
    \/ ClientsLock
    \/ ClientsUpdate("h1", RemoveEntry)
    \/ ClientsNotify
    \/ ClientsRespond
    \/ RecordingLock
    \/ RecordingRespond
    \/ LogLock
    \/ LogUnlock
    \/ FrameLock
    \/ FrameUnlock
    \/ Free("EVENTS_BUS") /\ HandleEventsRequest("e1")
    \/ EventsBusLock("e1")
    \/ EventsBusUnlock("e1")
    \/ HandleVideoRequest("v1")
    \/ VideoBusLock("v1")
    \/ VideoConfigLock("v1")
    \/ VideoBusUnlock("v1")

SpecLocks == InitRoutes /\ [][NextLocks]_vars

\* The publishers and the streaming threads, with their lock operations.
NextPublish ==
    \/ LogLock
    \/ LogUnlock
    \/ FrameLock
    \/ FrameUnlock
    \/ EventsThreadLocks("e1")
    \/ VideoThreadLocks("v1")
    \/ SetDecoderConfig
    \/ Shutdown

SpecPublish == InitRoutes /\ [][NextPublish]_vars

\* The dashboard's Log requests, of every severity and content, in a debug
\* and in a release build.
InitDashLog ==
    /\ Init
    /\ EVENTS_BUS.some
    /\ client_list = [h \in Hostnames |-> Absent]

NextDashLog ==
    \/ \E s \in Severities, c \in LogContents : DashboardRequest(LogRequest(s, c))
    \/ Ping
    \/ Shutdown

SpecDashLog == InitDashLog /\ [][NextDashLog]_vars

\* The log sink with a session log file whose writes can fail, with and
\* without an event bus.
InitSink ==
    /\ Init
    /\ level_filter = "Info"
    /\ client_list = [h \in Hostnames |-> Absent]

NextSink ==
    \/ EventsThread("e1")
    \/ \E level \in {"Error", "Info"} : LogCall(level, PlainMessage)
    \/ SinkFault

SpecSink == InitSink /\ [][NextSink]_vars

\* Both streaming routes with one connection each. Every thread the code
\* spawns keeps being scheduled: weak fairness of each thread's steps. The
\* log calls, the encoder and the shutdown request are the environment's.
NextStreams ==
    \/ EventsThread("e1")
    \/ VideoThread("v1")
    \/ LogCall("Info", PlainMessage)
    \/ SendVideo
    \/ Shutdown

SpecStreams ==
    /\ InitVideo
    /\ [][NextStreams]_vars
    /\ WF_vars(EventsThread("e1"))
    /\ WF_vars(VideoThread("v1"))

\* ------------------------------------------------------------------- claims

\* The connection holds a BusReader and is in its streaming loop.
Streaming(i) == ev[i].pc \in {"check", "next", "send"}

\* The try_broadcast calls on EVENTS_BUS since connection i subscribed.
PublishedSince(i) == SubSeq(ev_attempts, ev_sub_at[i] + 1, Len(ev_attempts))
EventsOf(attempts) == [k \in 1..Len(attempts) |-> attempts[k].event]
IsAccepted(a) == a.accepted

\* What connection i has forwarded on its socket, as events.
Forwarded(i) == [k \in 1..Len(ev_sent[i]) |-> parse_event(ev_sent[i][k])]

\* What connection i has taken from the bus: forwarded, or in its hand.
Received(i) == Forwarded(i) \o (IF ev[i].pc = "send" THEN <<ev[i].data>> ELSE <<>>)

\* What connection i observes: received, or still unread in the bus.
Observed(i) ==
    Received(i) \o (IF i \in DOMAIN EVENTS_BUS.rx THEN Unread(EVENTS_BUS, i) ELSE <<>>)

Range(seq) == {seq[k] : k \in 1..Len(seq)}

\* Since it subscribed, connection i was the only reader of the bus and never
\* had a full bus of unread items when an event was published.
AloneAndNeverLagging(i) ==
    \A k \in 1..Len(PublishedSince(i)) :
        /\ PublishedSince(i)[k].readers = {i}
        /\ i \notin PublishedSince(i)[k].full

\* C1: with a single subscriber that never lags, the events the streaming
\* loop has forwarded, followed by the one in its hand and the ones it has not
\* read yet, are exactly the events published since it subscribed, each once
\* and in publish order.
C1_SingleSubscriberSeesAll ==
    \A i \in EventSubs :
        (Streaming(i) /\ AloneAndNeverLagging(i))
            => Observed(i) = EventsOf(PublishedSince(i))

\* A lone subscriber has forwarded every one of two or more published events.
C1_Witness ==
    \E i \in EventSubs :
        /\ Streaming(i)
        /\ AloneAndNeverLagging(i)
        /\ Len(ev_sent[i]) >= 2
        /\ Forwarded(i) = EventsOf(PublishedSince(i))

C3_SubscribersIndependent ==
    \A k \in 1..Len(ev_attempts) :
        \A b \in ev_attempts[k].readers :
            b \notin ev_attempts[k].full => ev_attempts[k].accepted

\* C6: a subscriber never observes an event that was published before it
\* subscribed.
C6_NoBacklog ==
    \A i \in EventSubs :
        \A k \in 1..ev_sub_at[i] :
            ev_attempts[k].event \notin Range(Observed(i))

\* A subscriber that registered after some publishes, while earlier items
\* were still buffered for another reader, has forwarded an event.
C6_Witness ==
    \E i \in EventSubs :
        /\ ev_sub_at[i] > 0
        /\ ev_backlog_at[i] > 0
        /\ Len(ev_sent[i]) > 0

\* The streaming loops that are running.

VideoLoopRunning(v) == vid[v].pc \in {"check", "next", "send"}

\* C4: once SHUTTING_DOWN is set, every streaming loop leaves its loop.
C4_LoopsExitOnShutdown ==
    SHUTTING_DOWN ~>
        /\ \A i \in EventSubs : ~Streaming(i)
        /\ \A v \in VideoSubs : ~VideoLoopRunning(v)

\* C5: once SHUTTING_DOWN is set, no websocket sends anything more.
C5_NoSendAfterShutdown ==
    [][SHUTTING_DOWN => (ev_sent' = ev_sent /\ vid_sent' = vid_sent)]_vars

\* The mirror subscription has been made (the Bus exists and has its reader
\* or has had it).
VideoSubscribed(v) == video_bus[v].some

\* C7: when a decoder configuration is known as a client subscribes to the
\* video mirror, the configuration is the first item of the new Bus from the
\* subscription on (so before the keyframe request and before any frame the
\* encoder publishes), and the first message the websocket sends is the
\* configuration.
C7_ConfigFirst ==
    \A v \in VideoSubs :
        (VideoSubscribed(v) /\ vid_sub[v].config # NoConfig) =>
            /\ video_bus[v].ring # <<>>
            /\ video_bus[v].ring[1] = vid_sub[v].config.config_buffer
            /\ vid_sent[v] # <<>> => vid_sent[v][1] = vid_sub[v].config.config_buffer
            /\ (idr_requests > vid_sub[v].idr \/ vid[v].pc = "idr")

\* A subscriber that found a decoder configuration has sent it and then a
\* frame, with frames published before and after its keyframe request.
C7_Witness ==
    \E v \in VideoSubs :
        /\ vid_sub[v].config # NoConfig
        /\ vid_sub[v].frames > 0
        /\ Len(vid_sent[v]) >= 2
        /\ vid_sent[v][1] = ConfigBuffer
        /\ vid_sent[v][2] # ConfigBuffer

\* The last dashboard request was a RemoveEntry that the dispatcher served.
RemoveServed ==
    /\ last_request.status = 204
    /\ last_request.action = RemoveEntry

StateBefore == last_request.before[last_request.hostname]
StateAfter == last_request.after[last_request.hostname]
NotificationsSent == last_request.notified_after - last_request.notified_before

\* C8 as stated: a RemoveEntry on a Disconnected entry removes it; on an entry
\* in any other state it leaves the entry in the registry as
\* Disconnecting{should_be_removed: true}, and a disconnect notification has
\* been sent.
C8_RemoveEntryAlwaysNotifies ==
    RemoveServed =>
        /\ StateBefore = "Disconnected" => StateAfter = Absent
        /\ StateBefore \notin {Absent, "Disconnected"} =>
              /\ StateAfter = DisconnectingToRemove
              /\ NotificationsSent = 1

\* C8 as amended: the same, with the disconnect notification sent when a
\* disconnect notifier is installed (DISCONNECT_CLIENT_NOTIFIER is Some).
C8_RemoveEntryTransition ==
    RemoveServed =>
        /\ StateBefore = "Disconnected" => StateAfter = Absent
        /\ StateBefore \notin {Absent, "Disconnected"} =>
              /\ StateAfter = DisconnectingToRemove
              /\ last_request.notifier => NotificationsSent = 1

\* A RemoveEntry was served for a Connected client with a notifier installed.
C8_Witness ==
    /\ RemoveServed
    /\ StateBefore = "Connected"
    /\ last_request.notifier
    /\ StateAfter = DisconnectingToRemove

\* C9 as stated: a RemoveEntry for a hostname that is not in the registry
\* changes nothing and sends no notification.
C9_AbsentRemoveSilent ==
    (RemoveServed /\ StateBefore = Absent) =>
        /\ last_request.after = last_request.before
        /\ NotificationsSent = 0

\* C9 as amended: a RemoveEntry for a hostname that is not in the registry
\* leaves the registry as it was, and so does repeating it; its one side
\* effect is the disconnect notification that every UpdateClientList request
\* sends when a notifier is installed.
C9_AbsentRemoveKeepsRegistry ==
    (RemoveServed /\ StateBefore = Absent) =>
        /\ last_request.after = last_request.before
        /\ apply_client_list_action(last_request.after, last_request.hostname,
                                    RemoveEntry) = last_request.after
        /\ NotificationsSent = (IF last_request.notifier THEN 1 ELSE 0)

\* A RemoveEntry was served for an absent hostname while another client was
\* connected and a notifier was installed.
C9_Witness ==
    /\ RemoveServed
    /\ StateBefore = Absent
    /\ last_request.notifier
    /\ \E h \in Hostnames : last_request.before[h] = "Connected"
    /\ requests >= 2

\* The event a log call of a plain message makes.
LogEvent(level, m) ==
    [timestamp |-> clock',
     event_type |-> [tag |-> "Log", severity |-> from_log_level(level), content |-> m]]

AllLevels == {Levels[k] : k \in 1..Len(Levels)}
AllMessages ==
    Messages \cup {MsgSubscribing, MsgSendFailed, MsgEventsFinished,
                   MsgVideoSendFailed, MsgVideoFinished}

\* A step is a log call of message m at level `level` that passes the filter.
IsLogStep(level, m) == Enabled(level) /\ clock' = clock + 1 /\ log(level, m)

Unparsable(r) == IsStructured(r.message) /\ from_str(r.message) = ParseError
Parsable(r) == ~Unparsable(r)

\* The Log entry that wraps a record's message as text.
Wrapped(r) ==
    [tag |-> "Log", severity |-> from_log_level(r.level), content |-> r.message]

\* The payload the classification rule gives a record.
PayloadOf(r) == IF IsStructured(r.message) THEN from_str(r.message) ELSE Wrapped(r)

\* The records that got through the format closure, and their payloads.
Delivered == SelectSeq(log_records, Parsable)
DeliveredPayloads == [k \in 1..Len(Delivered) |-> PayloadOf(Delivered[k])]

\* The payloads of the lines handed to the log output and of the events
\* offered to the event bus.
LinePayloads == [k \in 1..Len(session_log) |-> parse_event(session_log[k]).event_type]
OfferedPayloads == [k \in 1..Len(ev_attempts) |-> ev_attempts[k].event.event_type]

\* C11 as stated: a record whose message is a serialized EventType gives an
\* event with the parsed payload, which is never a Log variant; a record
\* whose message has the shape and does not parse panics the log call, with
\* no line and no event for it.
C11_StructuredNeverLog ==
    /\ LinePayloads = DeliveredPayloads
    /\ OfferedPayloads = DeliveredPayloads
    /\ panicked <=> \E k \in 1..Len(log_records) : Unparsable(log_records[k])
    /\ \A k \in 1..Len(Delivered) :
          IsStructured(Delivered[k].message) => DeliveredPayloads[k].tag # "Log"

\* C11 as amended: the payload is the parsed variant and never the Log entry
\* that wraps the message text; it is a Log variant exactly when the message
\* is itself a serialized Log entry. An unparsable record of that shape
\* panics the log call and leaves no line and no event.
C11_StructuredParsedOrFatal ==
    /\ LinePayloads = DeliveredPayloads
    /\ OfferedPayloads = DeliveredPayloads
    /\ panicked <=> \E k \in 1..Len(log_records) : Unparsable(log_records[k])
    /\ \A k \in 1..Len(Delivered) :
          IsStructured(Delivered[k].message) =>
              /\ DeliveredPayloads[k] = from_str(Delivered[k].message)
              /\ DeliveredPayloads[k] # Wrapped(Delivered[k])
              /\ DeliveredPayloads[k].tag = "Log" <=> Delivered[k].message = SerializedLog

\* A serialized Session payload was logged and is on the bus and in the log
\* output as a Session event, and an unparsable message of the same shape
\* panicked its log call and left nothing.
C11_Witness ==
    /\ \E k \in 1..Len(log_records) : log_records[k].message = SerializedSession
    /\ \E k \in 1..Len(log_records) : Unparsable(log_records[k])
    /\ panicked
    /\ Len(session_log) = 1
    /\ LinePayloads[1].tag = "Session"
    /\ Len(EVENTS_BUS.ring) = 1
    /\ EVENTS_BUS.ring[1].event_type.tag = "Session"

\* A step in which a record got through the format closure, and the event
\* made of it.
RecordDelivered ==
    /\ Len(log_records') = Len(log_records) + 1
    /\ Parsable(log_records'[Len(log_records')])
DeliveredEvent ==
    [timestamp |-> clock', event_type |-> PayloadOf(log_records'[Len(log_records')])]

\* C12: persisting and broadcasting a record are independent. The line is
\* handed to the log output whatever the bus does, and reaches the file
\* exactly when the file takes writes; the event reaches the bus exactly
\* when the bus exists and has room, whether or not the write succeeded.
C12_PersistAndBroadcastIndependent ==
    [][RecordDelivered =>
          /\ session_log' = Append(session_log, to_string(DeliveredEvent))
          /\ session_file' = IF sink_ok
                             THEN Append(session_file, to_string(DeliveredEvent))
                             ELSE session_file
          /\ EVENTS_BUS'.ring = IF EVENTS_BUS.some /\ ~IsFull(EVENTS_BUS)
                                THEN Append(EVENTS_BUS.ring, DeliveredEvent)
                                ELSE EVENTS_BUS.ring]_vars

\* One event was published on the bus although its line was lost by a
\* failed write, and one line was written although the full bus refused
\* its event.
C12_Witness ==
    /\ \E k \in 1..Len(ev_attempts) :
          /\ ev_attempts[k].accepted
          /\ ev_attempts[k].event \in Range(EVENTS_BUS.ring)
          /\ to_string(ev_attempts[k].event) \notin Range(session_file)
    /\ \E k \in 1..Len(ev_attempts) :
          /\ ~ev_attempts[k].accepted
          /\ ev_attempts[k].event \notin Range(EVENTS_BUS.ring)
          /\ to_string(ev_attempts[k].event) \in Range(session_file)

\* A step in which the request handler takes a request, on any route.
RequestStep ==
    \/ requests' = requests + 1
    \/ \E i \in EventSubs : ev[i].pc = "idle" /\ ev'[i].pc # "idle"
    \/ \E v \in VideoSubs : vid[v].pc = "idle" /\ vid'[v].pc # "idle"

\* The request of the step is answered 503 and no streaming thread starts.
Refused ==
    /\ requests' = requests + 1 => (response'.seq = requests' /\ response'.status = 503)
    /\ \A i \in EventSubs :
          (ev[i].pc = "idle" /\ ev'[i].pc # "idle") =>
              (ev'[i].status = 503 /\ ev'[i].pc = "done")
    /\ \A v \in VideoSubs :
          (vid[v].pc = "idle" /\ vid'[v].pc # "idle") =>
              (vid'[v].status = 503 /\ vid'[v].pc = "done")

\* The step leaves the server state, the buses, the log outputs, the sockets
\* and the collaborators as they were.
Untouched ==
    UNCHANGED <<EVENTS_BUS, ev_attempts, VIDEO_MIRROR_BUS, video_bus, DECODER_CONFIG,
                ev_sent, vid_sent, session_log, crash_log, session_file, log_records,
                clock, panicked, session, calls, recording, client_list,
                DISCONNECT_CLIENT_NOTIFIER, notified, idr_requests, frames, held>>

\* C13: while the shutdown flag is set, a request on any route is answered
\* 503 and changes nothing: no state mutation, no event, no collaborator
\* call, no new streaming thread.
C13_ShutdownRefusesAll ==
    [][(SHUTTING_DOWN /\ RequestStep) => (Refused /\ Untouched)]_vars

\* After a FirewallRules request was served, with its collaborator call and
\* its log line, the flag was set and a dashboard request, an /api/events
\* request and a /api/video-mirror request were all answered 503.
C13_Witness ==
    /\ SHUTTING_DOWN
    /\ response.seq = 2
    /\ response.route = "/api/dashboard-request"
    /\ response.status = 503
    /\ calls = 1
    /\ Len(session_log) = 1
    /\ ev["e1"].status = 503
    /\ vid["v1"].status = 503

\* The locks the publish paths take, and the streaming threads.
PublishLocks == {"EVENTS_BUS", "VIDEO_MIRROR_BUS"}
Subscribers == EventSubs \cup VideoSubs
PcOf(t) == IF t \in EventSubs THEN ev[t].pc ELSE vid[t].pc

\* The thread waits for its websocket, waits for the next item, or writes to
\* its socket.
InSocketOrWait(t) == PcOf(t) \in {"spawned", "next", "send"}

\* C14: publishing never waits for a subscriber. A streaming thread holds a
\* lock of the publish path only inside its subscription (never while it
\* waits for its websocket or for an item, or writes to its socket), the step
\* that ends the subscription is always ready, and a publisher that has the
\* lock finishes with its next step: try_broadcast does not wait.
C14_PublishNeverBlocked ==
    /\ \A l \in PublishLocks : \A t \in held[l] \cap Subscribers :
          /\ ~InSocketOrWait(t)
          /\ PcOf(t) \in {"subscribing", "replayed"}
    /\ \A t \in held["EVENTS_BUS"] \cap EventSubs : ENABLED EventsBusUnlock(t)
    /\ \A t \in held["VIDEO_MIRROR_BUS"] \cap VideoSubs :
          ENABLED VideoConfigLock(t) \/ ENABLED VideoBusUnlock(t)
    /\ lt["logger"] = "publishing" => ENABLED LogUnlock
    /\ lt["encoder"] = "publishing" => ENABLED FrameUnlock

\* Three events were published, and the publishers are done, while the
\* /api/events thread still holds the first of them for its socket and the
\* mirror thread has subscribed.
C14_Witness ==
    /\ ev["e1"].pc = "send"
    /\ Len(PublishedSince("e1")) >= 3
    /\ \A k \in 1..Len(PublishedSince("e1")) : PublishedSince("e1")[k].accepted
    /\ lt["logger"] = "done"
    /\ lt["encoder"] = "done"
    /\ frames = 1
    /\ VIDEO_MIRROR_BUS = "v1"

\* The thread is in send_event, or has taken the notifier lock for the send
\* of the disconnect notification.
InOutsideCall(t) == lt[t] \in {"sending", "notifying"}

\* C17 as stated: no dashboard request holds the server-state lock while it
\* calls a collaborator, emits an event or sends the disconnect notification.
C17_NoLockAcrossCalls ==
    \A t \in held["SERVER_DATA_MANAGER"] : ~InOutsideCall(t)

\* Every thread that takes locks.
Threads == LockThreads \cup {"e1", "v1"}

\* The lock the thread's next step takes, if any.
WaitsFor(t) ==
    CASE t \in Readers /\ lt[t] = "idle" -> "SERVER_DATA_MANAGER"
      [] t \in Readers /\ lt[t] = "read" -> "EVENTS_BUS"
      [] t = "UpdateClientList" /\ lt[t] = "idle" -> clients_locks[1]
      [] t = "UpdateClientList" /\ lt[t] = "updated" -> clients_locks[2]
      [] t = "StopRecording" /\ lt[t] = "idle" -> "VIDEO_RECORDING_FILE"
      [] t = "logger" /\ lt[t] = "idle" -> "EVENTS_BUS"
      [] t = "encoder" /\ lt[t] = "idle" -> "VIDEO_MIRROR_BUS"
      [] t = "e1" /\ ev[t].pc \in {"idle", "spawned"} -> "EVENTS_BUS"
      [] t = "v1" /\ vid[t].pc = "spawned" -> "VIDEO_MIRROR_BUS"
      [] t = "v1" /\ vid[t].pc = "subscribing" -> "DECODER_CONFIG"
      [] OTHER -> None

\* The thread cannot take that lock now.
Blocked(t) ==
    /\ WaitsFor(t) # None
    /\ IF WaitsFor(t) = "SERVER_DATA_MANAGER" /\ t \in Readers
       THEN ~CanRead
       ELSE held[WaitsFor(t)] \ {t} # {}

\* Some threads each wait for a lock that one of them holds.
Deadlocked ==
    \E D \in SUBSET {t \in Threads : Blocked(t)} :
        /\ D # {}
        /\ \A t \in D : held[WaitsFor(t)] \cap D # {}

\* One order of the locks that are held together.
LockRank(l) ==
    CASE l = "SERVER_DATA_MANAGER" -> 1
      [] l = "DISCONNECT_CLIENT_NOTIFIER" -> 2
      [] l = "VIDEO_MIRROR_BUS" -> 3
      [] l = "DECODER_CONFIG" -> 4
      [] l = "VIDEO_RECORDING_FILE" -> 5
      [] l = "EVENTS_BUS" -> 6

\* A thread that takes a lock holds only locks that come before it.
OrderRespected ==
    \A t \in Threads, l \in Locks :
        (t \notin held[l] /\ t \in held'[l]) =>
            \A k \in Locks : t \in held[k] => LockRank(k) < LockRank(l)

\* A thread that is done holds no lock.
Finished(t) == IF t \in LockThreads THEN lt[t] = "done" ELSE PcOf(t) \in {"check", "idr", "done"}
NoLeak == \A t \in Threads, l \in Locks : Finished(t) => t \notin held[l]

\* C20: no interleaving of the handlers, the streaming threads and the log
\* calls deadlocks on the locks: every lock is taken while holding only locks
\* that come before it in one order, no set of threads waits in a cycle, and
\* every lock is given back.
C20_NoDeadlock ==
    [][OrderRespected /\ ~Deadlocked' /\ NoLeak']_vars

\* UpdateClientList holds the server-state lock and the notifier lock while
\* GetSession waits for the first, and the mirror thread holds the mirror-bus
\* lock and the decoder-config lock while the encoder waits for the first.
C20_Witness ==
    /\ held["SERVER_DATA_MANAGER"] = {"UpdateClientList"}
    /\ held["DISCONNECT_CLIENT_NOTIFIER"] = {"UpdateClientList"}
    /\ Blocked("GetSession")
    /\ held["VIDEO_MIRROR_BUS"] = {"v1"}
    /\ held["DECODER_CONFIG"] = {"v1"}
    /\ Blocked("encoder")
    /\ lt["GetAudioDevices"] = "done"

\* C15: a socket send failure ends that loop only. The events published
\* after the failure (the first is the failing thread's own report of it)
\* reach every other subscriber that has room for them, and once the thread
\* is done its reader is no longer counted by the bus.
C15_FailureIsolated ==
    \A i \in EventSubs :
        /\ (ev[i].failed /\ ev[i].pc = "done") => i \notin DOMAIN EVENTS_BUS.rx
        /\ \A j \in EventSubs \ {i} :
              (ev[i].failed /\ ~ev[j].failed) =>
                  \A k \in 1..Len(ev_attempts) :
                      (/\ ev_attempts[k].event.event_type.content = MsgSendFailed
                       /\ j \in ev_attempts[k].readers
                       /\ j \notin ev_attempts[k].full) => ev_attempts[k].accepted

\* C16: the video mirror is multi-consumer. A subscriber whose loop is
\* running, whose socket has not failed and whose Bus has never been full has
\* in its Bus every frame published since it subscribed, whichever
\* subscription came later, and its Bus is still connected to the encoder.
C16_MirrorMultiConsumer ==
    \A v \in VideoSubs :
        (/\ VideoLoopRunning(v)
         /\ ~vid[v].failed
         /\ tail(video_bus[v]) < WS_BROADCAST_CAPACITY) =>
            /\ ~video_bus[v].closed
            /\ \A b \in VideoSubs : \A k \in 1..Len(video_bus[b].ring) :
                  (/\ video_bus[b].ring[k][1] = "frame"
                   /\ video_bus[b].ring[k][2] > vid_sub[v].frames) =>
                      video_bus[b].ring[k] \in Range(video_bus[v].ring)

\* The event a dashboard Log request is to result in.
RequestedEvent(sev, c) ==
    [timestamp |-> clock', event_type |-> [tag |-> "Log", severity |-> sev, content |-> c]]

\* C18: a dashboard request Log{severity, content} served while the server
\* is not shutting down, at a severity the build logs, is answered 204 and
\* results in one event with payload Log{severity, content}, in the log
\* output and (when the bus has room) on the bus, for every content.
C18_DashboardLogReemitted ==
    [][\A sev \in Severities, c \in LogContents :
          (/\ ~SHUTTING_DOWN
           /\ Enabled(into_log_level(sev))
           /\ DashboardRequest(LogRequest(sev, c))) =>
              /\ response'.status = 204
              /\ session_log' = Append(session_log, to_string(RequestedEvent(sev, c)))
              /\ EVENTS_BUS'.ring =
                    IF IsFull(EVENTS_BUS) THEN EVENTS_BUS.ring
                    ELSE Append(EVENTS_BUS.ring, RequestedEvent(sev, c))]_vars

\* The items a bus keeps: those some reader has still to read.
WithinCapacity(bus) ==
    /\ bus.len = WS_BROADCAST_CAPACITY
    /\ Buffered(bus) <= WS_BROADCAST_CAPACITY
    /\ \A r \in DOMAIN bus.rx : Len(Unread(bus, r)) <= WS_BROADCAST_CAPACITY

\* C19: the event bus and every mirror bus hold at most WS_BROADCAST_CAPACITY
\* items, whatever was published and whoever stopped reading.
C19_BusBounded ==
    /\ EVENTS_BUS.some => WithinCapacity(EVENTS_BUS)
    /\ \A v \in VideoSubs : video_bus[v].some => WithinCapacity(video_bus[v])

\* Both buses are full, and each has refused a publish: an event was not
\* accepted, and more frames were produced than the mirror bus took.
C19_Witness ==
    /\ Buffered(EVENTS_BUS) = WS_BROADCAST_CAPACITY
    /\ \E k \in 1..Len(ev_attempts) : ~ev_attempts[k].accepted
    /\ Buffered(video_bus["v1"]) = WS_BROADCAST_CAPACITY
    /\ frames > tail(video_bus["v1"])

====
